---- MODULE Spec2Model ----
(***************************************************************************)
(* Capacity accounting of the darshan booking API (src/main.py,            *)
(* src/schemas.py): the booking store, the two-tier booked-ticket query,   *)
(* the check-then-write create_booking handler, the per-slot availability  *)
(* loop and the booking listing.                                           *)
(*                                                                         *)
(* A date string is a sequence of one-character strings, so that the date  *)
(* check of create_booking is modelled by what strptime does with the      *)
(* characters.                                                             *)
(***************************************************************************)
EXTENDS Integers, Sequences, FiniteSets, Bags, TLC

VARIABLES
    store,      \* the "booking" collection: a bag of persisted Booking records
    inflight,   \* create_booking requests past the capacity check, not yet written
    workers,    \* how many create_booking requests the server handles at a time
    aggUp,      \* whether the aggregation query currently succeeds
    reading,    \* the get_availability call in progress (its loop position and items)
    resp,       \* the response the last step returned, NoResp when it returned none
    ledger,     \* history: per (date, slot), tickets and records of successful bookings
    raced,      \* history: the last step wrote the second request of a racing pair
    lastAvail   \* history: the last availability result with no write since it began

vars == <<store, inflight, workers, aggUp, reading, resp, ledger, raced,
          lastAvail>>

----------------------------------------------------------------------------
(* Program constants *)

SLOTS == <<"06:00-08:00", "08:00-10:00", "10:00-12:00",
           "12:00-14:00", "16:00-18:00", "18:00-20:00">>

SLOT_CAPACITY == 200

MinTickets == 1

MaxTickets == 10

(* Bounds of the model *)

MaxInFlight == 2

----------------------------------------------------------------------------
(* Small helpers *)

None == "None"

NoResp == [status |-> 0, kind |-> "none"]

NoAvail == [valid |-> FALSE]

Idle == [active |-> FALSE]

Max(a, b) == IF a >= b THEN a ELSE b

SlotSet == {SLOTS[i] : i \in 1..Len(SLOTS)}

Digits == {"0", "1", "2", "3", "4", "5", "6", "7", "8", "9"}

DigitVal == "0" :> 0 @@ "1" :> 1 @@ "2" :> 2 @@ "3" :> 3 @@ "4" :> 4 @@
            "5" :> 5 @@ "6" :> 6 @@ "7" :> 7 @@ "8" :> 8 @@ "9" :> 9

DigitChar == [d \in 0..9 |-> CHOOSE c \in Digits : DigitVal[c] = d]

RECURSIVE NumVal(_)
NumVal(s) ==
    IF s = <<>> THEN 0
    ELSE 10 * NumVal(SubSeq(s, 1, Len(s) - 1)) + DigitVal[s[Len(s)]]

(* str(n) of a non-negative integer, as the f-string renders it *)
RECURSIVE ToDecimal(_)
ToDecimal(n) ==
    IF n < 10 THEN <<DigitChar[n]>>
    ELSE ToDecimal(n \div 10) \o <<DigitChar[n % 10]>>

RECURSIVE SumOver(_, _)
SumOver(S, f) ==
    IF S = {} THEN 0
    ELSE LET x == CHOOSE y \in S : TRUE
         IN  f[x] + SumOver(S \ {x}, f)

----------------------------------------------------------------------------
(* datetime.strptime(date, "%Y-%m-%d") *)

ValueError == [error |-> "ValueError"]

(* %m : 1[0-2]|0[1-9]|[1-9] *)
MonthTokens ==
    {<<"1", c>> : c \in {"0", "1", "2"}}
    \cup {<<"0", c>> : c \in Digits \ {"0"}}
    \cup {<<c>> : c \in Digits \ {"0"}}

(* %d : 3[0-1]|[1-2]\d|0[1-9]|[1-9]| [1-9] *)
DayTokens ==
    {<<"3", c>> : c \in {"0", "1"}}
    \cup {<<a, c>> : a \in {"1", "2"}, c \in Digits}
    \cup {<<"0", c>> : c \in Digits \ {"0"}}
    \cup {<<c>> : c \in Digits \ {"0"}}
    \cup {<<" ", c>> : c \in Digits \ {"0"}}

TokenVal(t) == NumVal(SelectSeq(t, LAMBDA c : c \in Digits))

IsLeap(y) == (y % 4 = 0) /\ ((y % 100 # 0) \/ (y % 400 = 0))

DaysInMonth(y, m) ==
    IF m = 2 THEN (IF IsLeap(y) THEN 29 ELSE 28)
    ELSE IF m \in {4, 6, 9, 11} THEN 30 ELSE 31

strptime(s) ==
    LET dashes == {i \in 6..Len(s) : s[i] = "-"}
    IN  IF \/ Len(s) < 5
           \/ \E i \in 1..4 : s[i] \notin Digits
           \/ s[5] # "-"
           \/ Cardinality(dashes) # 1
        THEN ValueError
        ELSE LET j  == CHOOSE i \in dashes : TRUE
                 mm == SubSeq(s, 6, j - 1)
                 dd == SubSeq(s, j + 1, Len(s))
             IN  IF mm \notin MonthTokens \/ dd \notin DayTokens THEN ValueError
                 ELSE LET y == NumVal(SubSeq(s, 1, 4))
                          m == TokenVal(mm)
                          d == TokenVal(dd)
                      IN  IF y < 1 \/ d > DaysInMonth(y, m) THEN ValueError
                          ELSE [year |-> y, month |-> m, day |-> d]

----------------------------------------------------------------------------
(* The persistence collaborator *)

Matching(date, slot) == {r \in BagToSet(store) : r.date = date /\ r.slot = slot}

(* [{"$match": {date, slot}}, {"$group": {"_id": None, "total": {"$sum": "$tickets"}}}] *)
aggregate(date, slot) ==
    LET docs == Matching(date, slot)
    IN  IF docs = {} THEN <<>>
        ELSE <<[id |-> None,
               total |-> SumOver(docs, [r \in docs |-> store[r] * r.tickets])]>>

count_documents(date, slot) ==
    LET docs == Matching(date, slot)
    IN  SumOver(docs, [r \in docs |-> store[r]])

create_document(coll, payload) == coll (+) SetToBag({payload})

get_documents(coll, filter_email) ==
    IF filter_email = None THEN coll
    ELSE LET keep == {r \in BagToSet(coll) : r.email = filter_email}
         IN  [r \in keep |-> coll[r]]

----------------------------------------------------------------------------
(* The capacity accountant *)

(* Faulty variants of the accountant, used to show what each property rests on *)
total_tickets_booked_zero_on_failure(date, slot) ==
    IF aggUp
    THEN LET result == aggregate(date, slot)
         IN  IF result # <<>> THEN result[1].total ELSE 0
    ELSE 0

total_tickets_booked_by_count(date, slot) == count_documents(date, slot)

total_tickets_booked_with_pending(date, slot) ==
    LET pending == {e \in BagToSet(inflight) :
                        e.payload.date = date /\ e.payload.slot = slot}
        stored  == IF aggUp
                   THEN LET result == aggregate(date, slot)
                        IN  IF result # <<>> THEN result[1].total ELSE 0
                   ELSE count_documents(date, slot)
    IN  stored + SumOver(pending, [e \in pending |-> inflight[e] * e.payload.tickets])

total_tickets_booked(date, slot) ==
    IF aggUp
    THEN LET result == aggregate(date, slot)
         IN  IF result # <<>> THEN result[1].total ELSE 0
    ELSE count_documents(date, slot)

remaining_tickets(booked) == Max(0, SLOT_CAPACITY - booked)

capacity_exceeded_off_by_one(tickets, remaining) == tickets > remaining + 1

capacity_exceeded_at_equal(tickets, remaining) == tickets >= remaining

capacity_exceeded(tickets, remaining) == tickets > remaining

schema_valid_unbounded(payload) == TRUE

schema_valid(payload) ==
    payload.tickets >= MinTickets /\ payload.tickets <= MaxTickets

Key(payload) == <<payload.date, payload.slot>>

LedgerSum(k) == IF k \in DOMAIN ledger THEN ledger[k].sum ELSE 0

LedgerCount(k) == IF k \in DOMAIN ledger THEN ledger[k].count ELSE 0

Credit(k, tickets) ==
    [x \in DOMAIN ledger \cup {k} |->
        IF x = k THEN [sum |-> LedgerSum(k) + tickets, count |-> LedgerCount(k) + 1]
        ELSE ledger[x]]

(* History kept with each request in flight: "fresh" while the total it read is
   still the stored total, "paired" once a request that had read the same total
   was written although the two together exceed what remained, "stale" after any
   other write to its date and slot. *)
MarkAfter(x, written) ==
    IF Key(x.payload) # Key(written.payload) THEN x
    ELSE IF x.mark = "paired" THEN x
    ELSE IF /\ x.mark = "fresh"
            /\ written.mark = "fresh"
            /\ x.payload.tickets + written.payload.tickets
                  > Max(0, SLOT_CAPACITY - LedgerSum(Key(x.payload)))
    THEN [x EXCEPT !.mark = "paired"]
    ELSE [x EXCEPT !.mark = "stale"]

Remark(B, written) ==
    LET old == BagToSet(B)
        new == {MarkAfter(x, written) : x \in old}
    IN  [y \in new |->
            LET from == {x \in old : MarkAfter(x, written) = y}
            IN  SumOver(from, [x \in from |-> B[x]])]

----------------------------------------------------------------------------
(* POST /api/bookings: validation and the capacity check *)

create_booking_check(payload) ==
    /\ BagCardinality(inflight) < workers
    /\ IF ~schema_valid(payload)
       THEN /\ resp' = [status |-> 422, kind |-> "error", detail |-> "validation"]
            /\ UNCHANGED inflight
       ELSE IF strptime(payload.date) = ValueError
       THEN /\ resp' = [status |-> 400, kind |-> "error",
                        detail |-> "Invalid date format. Use YYYY-MM-DD"]
            /\ UNCHANGED inflight
       ELSE IF payload.slot \notin SlotSet
       THEN /\ resp' = [status |-> 400, kind |-> "error",
                        detail |-> "Invalid slot selected"]
            /\ UNCHANGED inflight
       ELSE LET booked    == total_tickets_booked(payload.date, payload.slot)
                remaining == remaining_tickets(booked)
            IN  IF capacity_exceeded(payload.tickets, remaining)
                THEN /\ resp' = [status |-> 409, kind |-> "full",
                                 detail |-> <<"Only ", ToDecimal(remaining),
                                              " tickets remaining for ",
                                              payload.slot, " on ", payload.date>>]
                     /\ UNCHANGED inflight
                ELSE /\ resp' = NoResp
                     /\ inflight' = inflight (+) SetToBag({[payload |-> payload,
                                                            mark |-> "fresh"]})
    /\ raced' = FALSE
    /\ UNCHANGED <<store, workers, aggUp, reading, ledger, lastAvail>>

(* POST /api/bookings: the write and the response *)

(* Faulty variant: the write repeats the capacity check *)
create_booking_persist_rechecked(e) ==
    /\ e \in BagToSet(inflight)
    /\ ~capacity_exceeded(e.payload.tickets,
                          remaining_tickets(total_tickets_booked(e.payload.date,
                                                                 e.payload.slot)))
    /\ store' = create_document(store, e.payload)
    /\ inflight' = Remark(inflight (-) SetToBag({e}), e)
    /\ resp' = [status |-> 200, kind |-> "booking", ok |-> TRUE]
    /\ ledger' = Credit(Key(e.payload), e.payload.tickets)
    /\ raced' = (e.mark = "paired")
    /\ lastAvail' = NoAvail
    /\ reading' = IF reading.active THEN [reading EXCEPT !.dirty = TRUE] ELSE reading
    /\ UNCHANGED <<workers, aggUp>>

create_booking_persist(e) ==
    /\ e \in BagToSet(inflight)
    /\ store' = create_document(store, e.payload)
    /\ inflight' = Remark(inflight (-) SetToBag({e}), e)
    /\ resp' = [status |-> 200, kind |-> "booking", ok |-> TRUE]
    /\ ledger' = Credit(Key(e.payload), e.payload.tickets)
    /\ raced' = (e.mark = "paired")
    /\ lastAvail' = NoAvail
    /\ reading' = IF reading.active THEN [reading EXCEPT !.dirty = TRUE] ELSE reading
    /\ UNCHANGED <<workers, aggUp>>

----------------------------------------------------------------------------
(* GET /api/availability: one query per catalog slot, in catalog order *)

(* Faulty variant: remaining is not floored at zero *)
AvailabilityItem_unfloored(slot, booked) ==
    [slot |-> slot, capacity |-> SLOT_CAPACITY, booked |-> booked,
     remaining |-> SLOT_CAPACITY - booked]

AvailabilityItem(slot, booked) ==
    [slot |-> slot, capacity |-> SLOT_CAPACITY, booked |-> booked,
     remaining |-> Max(0, SLOT_CAPACITY - booked)]

NextItem(date, items) ==
    LET slot == SLOTS[Len(items) + 1]
    IN  AvailabilityItem(slot, total_tickets_booked(date, slot))

Collect(call) ==
    IF Len(call.items) = Len(SLOTS)
    THEN /\ resp' = [status |-> 200, kind |-> "availability", items |-> call.items]
         /\ reading' = Idle
         /\ lastAvail' = IF call.dirty THEN NoAvail
                         ELSE [valid |-> TRUE, date |-> call.date,
                               items |-> call.items, toggled |-> call.toggled,
                               again |-> /\ lastAvail.valid
                                         /\ lastAvail.date = call.date
                                         /\ ~lastAvail.toggled]
    ELSE /\ resp' = NoResp
         /\ reading' = call
         /\ UNCHANGED lastAvail

get_availability_begin(date) ==
    /\ ~reading.active
    /\ IF date = <<>>
       THEN /\ resp' = [status |-> 400, kind |-> "error",
                        detail |-> "date is required (YYYY-MM-DD)"]
            /\ UNCHANGED <<reading, lastAvail>>
       ELSE Collect([active |-> TRUE, date |-> date,
                     items |-> <<NextItem(date, <<>>)>>,
                     dirty |-> FALSE, toggled |-> FALSE])
    /\ raced' = FALSE
    /\ UNCHANGED <<store, inflight, workers, aggUp, ledger>>

get_availability_step ==
    /\ reading.active
    /\ Collect([reading EXCEPT
                  !.items = Append(reading.items, NextItem(reading.date, reading.items))])
    /\ raced' = FALSE
    /\ UNCHANGED <<store, inflight, workers, aggUp, ledger>>

----------------------------------------------------------------------------
(* GET /api/bookings *)

list_bookings(email) ==
    /\ resp' = [status |-> 200, kind |-> "bookings",
                items |-> get_documents(store, IF email = "" THEN None ELSE email)]
    /\ raced' = FALSE
    /\ UNCHANGED <<store, inflight, workers, aggUp, reading, ledger, lastAvail>>

----------------------------------------------------------------------------
(* The environment: the aggregation query starts or stops failing *)

aggregation_toggle ==
    /\ aggUp' = ~aggUp
    /\ reading' = IF reading.active THEN [reading EXCEPT !.toggled = TRUE] ELSE reading
    /\ lastAvail' = IF lastAvail.valid THEN [lastAvail EXCEPT !.toggled = TRUE]
                    ELSE lastAvail
    /\ resp' = NoResp
    /\ raced' = FALSE
    /\ UNCHANGED <<store, inflight, workers, ledger>>

----------------------------------------------------------------------------
(* Inputs *)

DateA == <<"2", "0", "2", "5", "-", "0", "1", "-", "0", "1">>

DateLoose == <<"2", "0", "2", "5", "-", "1", "-", "1">>

DateSwapped == <<"0", "1", "-", "0", "1", "-", "2", "0", "2", "5">>

DateNoSuchDay == <<"2", "0", "2", "5", "-", "0", "2", "-", "3", "0">>

DateFree == <<"2", "0", "2", "5", "-", "1", "2", "-", "3", "1">>

EmailA == "a@example.org"

EmailB == "b@example.org"

BadSlot == "99:00-100:00"

Payloads(emails, dates, slots, tickets) ==
    [email : emails, date : dates, slot : slots, tickets : tickets]

(* Well-formed requests for one slot of one day, of the smallest and the largest
   ticket count the schema admits *)
MainPayloads == Payloads({EmailA}, {DateA}, {SLOTS[1]}, {MinTickets, MaxTickets})

(* The same, and one ticket past each bound of the schema *)
FallbackPayloads ==
    Payloads({EmailA}, {DateA}, {SLOTS[1]},
             {MinTickets - 1, MinTickets, MaxTickets, MaxTickets + 1})

----------------------------------------------------------------------------
(* Spec: requests handled by 1..MaxInFlight workers, aggregation succeeding *)

InitWith(w, up, st, led) ==
    /\ store = st
    /\ inflight = EmptyBag
    /\ workers = w
    /\ aggUp = up
    /\ reading = Idle
    /\ resp = NoResp
    /\ ledger = led
    /\ raced = FALSE
    /\ lastAvail = NoAvail

Init == \E w \in 1..MaxInFlight : InitWith(w, TRUE, EmptyBag, <<>>)

Next ==
    \/ \E p \in MainPayloads : create_booking_check(p)
    \/ \E e \in BagToSet(inflight) : create_booking_persist(e)

Spec == Init /\ [][Next]_vars

----------------------------------------------------------------------------
(* SpecFallback: one request at a time, the aggregation query failing and
   recovering at any moment *)

InitFallback == InitWith(1, TRUE, EmptyBag, <<>>)

NextFallback ==
    \/ \E p \in FallbackPayloads : create_booking_check(p)
    \/ \E e \in BagToSet(inflight) : create_booking_persist(e)
    \/ aggregation_toggle

SpecFallback == InitFallback /\ [][NextFallback]_vars

----------------------------------------------------------------------------
(* SpecRead: availability and listing calls beside concurrent bookings of the
   second catalog slot; the aggregation query fails while only reads arrive *)

ReadPayloads == Payloads({EmailA}, {DateA}, {SLOTS[2]}, {MaxTickets})

InitRead == InitWith(MaxInFlight, TRUE, EmptyBag, <<>>)

NextRead ==
    \/ \E p \in ReadPayloads : aggUp /\ create_booking_check(p)
    \/ \E e \in BagToSet(inflight) : create_booking_persist(e)
    \/ \E d \in {DateA, DateFree, <<>>} : get_availability_begin(d)
    \/ get_availability_step
    \/ \E email \in {"", EmailB} : list_bookings(email)
    \/ aggregation_toggle

SpecRead == InitRead /\ [][NextRead]_vars

----------------------------------------------------------------------------
(* SpecBoundary: one request at a time, of every ticket count the schema admits,
   on a slot that nineteen bookings of ten tickets have filled to ten below its
   capacity *)

FullBooking == [email |-> EmailA, date |-> DateA, slot |-> SLOTS[1],
                tickets |-> MaxTickets]

NearFull == SLOT_CAPACITY \div MaxTickets - 1

BoundaryPayloads ==
    Payloads({EmailA}, {DateA}, {SLOTS[1]}, MinTickets..MaxTickets)

InitBoundary ==
    InitWith(1, TRUE, [r \in {FullBooking} |-> NearFull],
             [k \in {Key(FullBooking)} |->
                 [sum |-> NearFull * MaxTickets, count |-> NearFull]])

NextBoundary ==
    \/ \E p \in BoundaryPayloads : create_booking_check(p)
    \/ \E e \in BagToSet(inflight) : create_booking_persist(e)

SpecBoundary == InitBoundary /\ [][NextBoundary]_vars

----------------------------------------------------------------------------
(* SpecValidate: well-formed and malformed requests, one at a time, listed by
   email *)

ValidatePayloads ==
    Payloads({EmailA}, {DateA, DateLoose, DateSwapped, DateNoSuchDay},
             {SLOTS[1], BadSlot}, {MinTickets - 1, MaxTickets, MaxTickets + 1})
    \cup Payloads({EmailB}, {DateA}, {SLOTS[1]}, {MaxTickets})

InitValidate == InitWith(1, TRUE, EmptyBag, <<>>)

NextValidate ==
    \/ \E p \in ValidatePayloads : create_booking_check(p)
    \/ \E e \in BagToSet(inflight) : create_booking_persist(e)
    \/ \E email \in {"", EmailA, EmailB} : list_bookings(email)

SpecValidate == InitValidate /\ [][NextValidate]_vars

----------------------------------------------------------------------------
(* What the properties speak of *)

TicketSum(date, slot) ==
    LET docs == {r \in BagToSet(store) : r.date = date /\ r.slot = slot}
    IN  SumOver(docs, [r \in docs |-> store[r] * r.tickets])

RecordCount(date, slot) ==
    LET docs == {r \in BagToSet(store) : r.date = date /\ r.slot = slot}
    IN  SumOver(docs, [r \in docs |-> store[r]])

(* The (date, slot) pairs that hold a record, one catalog slot that holds none
   and one day that holds none *)
ProbeKeys ==
    {Key(r) : r \in BagToSet(store)}
    \cup {<<DateA, SLOTS[1]>>, <<DateA, SLOTS[3]>>, <<DateFree, SLOTS[1]>>}

PendingTickets(k) ==
    LET pending == {e \in BagToSet(inflight) : Key(e.payload) = k}
    IN  SumOver(pending, [e \in pending |-> inflight[e] * e.payload.tickets])

(* The date is written YYYY-MM-DD: four digits, two digits, two digits *)
IsYMDForm(date) ==
    /\ Len(date) = 10
    /\ date[5] = "-" /\ date[8] = "-"
    /\ \A i \in {1, 2, 3, 4, 6, 7, 9, 10} : date[i] \in Digits

CapacityMessage(remaining, slot, date) ==
    <<"Only ", ToDecimal(remaining), " tickets remaining for ", slot, " on ", date>>

----------------------------------------------------------------------------
(* C1: in every reachable state, for every (date, slot), the tickets of the
   persisted bookings of that date and slot sum to at most the capacity 200,
   whatever the interleaving of the requests. *)
C1_CapacityNeverExceeded ==
    \A k \in ProbeKeys : TicketSum(k[1], k[2]) <= SLOT_CAPACITY

(* C2: with requests handled one at a time and aggregation succeeding, the booked
   total of a date and slot equals the sum of the tickets of its successful
   bookings, never exceeds 200, and no request is accepted whose tickets would
   push it above 200. *)
C2_SequentialTotals ==
    workers = 1 =>
        \A k \in ProbeKeys :
            /\ total_tickets_booked(k[1], k[2]) = LedgerSum(k)
            /\ TicketSum(k[1], k[2]) = LedgerSum(k)
            /\ TicketSum(k[1], k[2]) + PendingTickets(k) <= SLOT_CAPACITY

(* C2 reached: one worker has filled the slot to exactly 200 with bookings of
   one and of ten tickets *)
C2_FilledSequentially ==
    /\ workers = 1
    /\ resp.kind = "booking"
    /\ total_tickets_booked(DateA, SLOTS[1]) = SLOT_CAPACITY
    /\ \E r \in BagToSet(store) : r.tickets = MinTickets
    /\ \E r \in BagToSet(store) : r.tickets = MaxTickets

(* C3: the capacity check and the write are separate, unlocked steps: a request
   that passed the check is written whatever has been written since, so two
   requests that read the same total and together exceed what remained are both
   written and leave the slot above 200. *)
C3_WriteUnguarded ==
    \A e \in BagToSet(inflight) : ENABLED create_booking_persist(e)

(* C3 reached: the second request of a pair that read the same total has just
   been written and the slot holds more than 200 tickets *)
C3_BothPersisted ==
    /\ raced
    /\ resp.kind = "booking"
    /\ TicketSum(DateA, SLOTS[1]) > SLOT_CAPACITY

(* C9: with at most N requests in flight (workers = N) and aggregation
   succeeding, the ticket sum of a date and slot never exceeds 200 + 10*(N-1);
   with N = 1 it never exceeds 200. *)
C9_OverbookingBounded ==
    \A k \in ProbeKeys :
        TicketSum(k[1], k[2]) <= SLOT_CAPACITY + MaxTickets * (workers - 1)

(* C9 reached: MaxInFlight workers have brought the slot to the bound *)
C9_BoundReached ==
    /\ workers = MaxInFlight
    /\ TicketSum(DateA, SLOTS[1]) = SLOT_CAPACITY + MaxTickets * (MaxInFlight - 1)

(* C4: without interleaving, with remaining = max(0, 200 - booked) when the
   request arrives: a request for exactly the remaining tickets passes the check
   and its write adds exactly one record, the request's own; a request for one
   ticket more is refused with 409 and a message that names the remaining count,
   and nothing is written. *)
C4_Boundary ==
    [][ /\ \A p \in BoundaryPayloads :
              LET remaining == Max(0, SLOT_CAPACITY - TicketSum(p.date, p.slot))
              IN  /\ (create_booking_check(p) /\ p.tickets = remaining) =>
                        /\ inflight' = inflight (+) SetToBag({[payload |-> p,
                                                              mark |-> "fresh"]})
                        /\ resp'.kind # "full"
                  /\ (create_booking_check(p) /\ p.tickets = remaining + 1) =>
                        /\ resp'.status = 409
                        /\ resp'.detail = CapacityMessage(remaining, p.slot, p.date)
                        /\ NumVal(resp'.detail[2]) = remaining
                        /\ inflight' = inflight
                        /\ store' = store
        /\ \A e \in BagToSet(inflight) :
              create_booking_persist(e) =>
                  /\ store' = store (+) SetToBag({e.payload})
                  /\ BagCardinality(store') = BagCardinality(store) + 1
                  /\ resp'.status = 200 /\ resp'.ok
      ]_vars

(* C4 reached: a booking took exactly what remained and the next request, for
   one ticket, was refused with "Only 0 tickets remaining ..." *)
C4_FullThenRefused ==
    /\ TicketSum(DateA, SLOTS[1]) = SLOT_CAPACITY
    /\ BagCardinality(store) > NearFull
    /\ resp.status = 409
    /\ resp.detail = CapacityMessage(0, SLOTS[1], DateA)

(* C5: a refused create_booking request leaves the store as it was: a request
   whose date is not written YYYY-MM-DD or whose slot is not in the catalog is
   refused with 400, one whose tickets exceed the remaining capacity with 409;
   a record is written only for a request that passed all three checks, and one
   record per request. *)
C5_RefusedLeavesStore ==
    [][ /\ \A p \in {q \in ValidatePayloads : schema_valid(q)} :
              LET remaining == Max(0, SLOT_CAPACITY - TicketSum(p.date, p.slot))
              IN  /\ (create_booking_check(p) /\ p.slot \notin SlotSet) =>
                        resp'.status = 400
                  /\ (create_booking_check(p) /\ IsYMDForm(p.date)
                        /\ p.slot \in SlotSet /\ p.tickets > remaining) =>
                        resp'.status \in {400, 409}
                  /\ (create_booking_check(p) /\ resp'.status \in {400, 409}) =>
                        (inflight' = inflight /\ store' = store)
        /\ store' # store =>
              \E e \in BagToSet(inflight) :
                  /\ create_booking_persist(e)
                  /\ IsYMDForm(e.payload.date)
                  /\ e.payload.slot \in SlotSet
                  /\ store' = store (+) SetToBag({e.payload})
      ]_vars

(* An availability record as the call for `date` must build it for catalog slot i *)
ItemRight(item, date, i) ==
    /\ item.slot = SLOTS[i]
    /\ item.capacity = SLOT_CAPACITY
    /\ item.booked = IF aggUp THEN LedgerSum(<<date, SLOTS[i]>>)
                     ELSE LedgerCount(<<date, SLOTS[i]>>)
    /\ item.remaining = Max(0, SLOT_CAPACITY - item.booked)
    /\ item.remaining >= 0 /\ item.remaining <= SLOT_CAPACITY

ItemsAfter == IF reading'.active THEN reading'.items ELSE resp'.items

(* C6: every availability record returned names its catalog slot, capacity 200,
   booked = the booked total of the date and slot when it was queried (the
   ticket sum, or the record count while aggregation fails) and
   remaining = max(0, 200 - booked), which lies in 0..200 also when the slot is
   over-booked. *)
C6_AvailabilityItems ==
    [][ /\ get_availability_step =>
              LET i == Len(reading.items) + 1
              IN  /\ Len(ItemsAfter) = i
                  /\ SubSeq(ItemsAfter, 1, i - 1) = reading.items
                  /\ ItemRight(ItemsAfter[i], reading.date, i)
        /\ \A d \in {DateA, DateFree} :
              get_availability_begin(d) =>
                  /\ Len(ItemsAfter) = 1
                  /\ ItemRight(ItemsAfter[1], d, 1)
        /\ resp'.kind = "availability" =>
              /\ Len(resp'.items) = Len(SLOTS)
              /\ \A i \in 1..Len(SLOTS) :
                    /\ resp'.items[i].slot = SLOTS[i]
                    /\ resp'.items[i].capacity = SLOT_CAPACITY
                    /\ resp'.items[i].remaining
                         = Max(0, SLOT_CAPACITY - resp'.items[i].booked)
                    /\ resp'.items[i].remaining \in 0..SLOT_CAPACITY
      ]_vars

(* C6 reached: a returned record reports an over-booked slot, remaining 0 *)
C6_OverbookedReported ==
    /\ resp.kind = "availability"
    /\ \E i \in 1..Len(SLOTS) :
          /\ resp.items[i].booked > SLOT_CAPACITY
          /\ resp.items[i].booked = TicketSum(DateA, SLOTS[i])
          /\ resp.items[i].remaining = 0

(* The step on which a get_availability call returns; what every step of a call
   leaves alone; the order of the records returned *)
Returning == reading.active /\ ~reading'.active

AvailabilityReadOnly ==
    (get_availability_step \/ \E d \in {DateA, DateFree, <<>>} : get_availability_begin(d))
        => (store' = store /\ inflight' = inflight /\ ledger' = ledger)

CatalogOrder ==
    Returning => /\ resp'.kind = "availability"
                 /\ [i \in 1..Len(resp'.items) |-> resp'.items[i].slot] = SLOTS

(* C7: get_availability changes nothing in the store, returns one record per
   catalog slot in catalog order, and a call that follows another call for the
   same date, with no write since that call began, returns the same sequence. *)
C7_ReadsIdempotent ==
    [][ /\ AvailabilityReadOnly
        /\ CatalogOrder
        /\ (Returning /\ lastAvail.valid /\ lastAvail.date = reading.date)
              => resp'.items = lastAvail.items
      ]_vars

(* C7 as amended: the same, provided the aggregation query neither started nor
   stopped failing between the start of the first call and the end of the
   second. *)
C7_ReadsIdempotentSameTier ==
    [][ /\ AvailabilityReadOnly
        /\ CatalogOrder
        /\ (Returning /\ lastAvail.valid /\ lastAvail.date = reading.date
              /\ ~lastAvail.toggled)
              => resp'.items = lastAvail.items
      ]_vars

(* C7 reached: a second call with no write and no change of tier since the
   first began has returned the same records, one of them with bookings *)
C7_SameResultTwice ==
    /\ resp.kind = "availability"
    /\ lastAvail.valid /\ lastAvail.again /\ ~lastAvail.toggled
    /\ lastAvail.items = resp.items
    /\ \E i \in 1..Len(SLOTS) : resp.items[i].booked > 0

(* C8: total_tickets_booked returns the exact ticket sum of the matching records
   while aggregation succeeds (0 when none match) and the number of matching
   records while it fails; the count never exceeds the sum, is smaller exactly
   when a matching booking has more than one ticket, and so the remaining count
   it yields is never smaller than the true one. *)
C8_TwoTiers ==
    \A k \in ProbeKeys :
        LET sum   == LedgerSum(k)
            count == LedgerCount(k)
            docs  == {r \in BagToSet(store) : Key(r) = k}
        IN  /\ aggUp  => total_tickets_booked(k[1], k[2]) = sum
            /\ ~aggUp => total_tickets_booked(k[1], k[2]) = count
            /\ docs = {} => total_tickets_booked(k[1], k[2]) = 0
            /\ sum = TicketSum(k[1], k[2]) /\ count = RecordCount(k[1], k[2])
            /\ count <= sum
            /\ (count < sum) <=> (\E r \in docs : r.tickets > 1)
            /\ Max(0, SLOT_CAPACITY - count) >= Max(0, SLOT_CAPACITY - sum)

(* C8 reached: aggregation fails, the count stands in for a ticket sum above
   200 and still leaves tickets remaining *)
C8_FallbackUndercounts ==
    /\ ~aggUp
    /\ total_tickets_booked(DateA, SLOTS[1]) = RecordCount(DateA, SLOTS[1])
    /\ RecordCount(DateA, SLOTS[1]) < TicketSum(DateA, SLOTS[1])
    /\ TicketSum(DateA, SLOTS[1]) > SLOT_CAPACITY
    /\ remaining_tickets(total_tickets_booked(DateA, SLOTS[1])) > 0

(* C10: with requests handled one at a time and the aggregation query failing
   at any moment, a date and slot never holds more than 200 records, every
   record has 1..10 tickets, and the ticket sum stays at or below 2000 (it is
   not held to 200). *)
C10_FallbackBounds ==
    /\ \A r \in BagToSet(store) : r.tickets \in MinTickets..MaxTickets
    /\ \A k \in ProbeKeys :
          /\ RecordCount(k[1], k[2]) <= SLOT_CAPACITY
          /\ TicketSum(k[1], k[2]) <= SLOT_CAPACITY * MaxTickets

(* C10 reached: 200 records in the slot, carrying more than 200 tickets *)
C10_CountFullSumAbove ==
    /\ RecordCount(DateA, SLOTS[1]) = SLOT_CAPACITY
    /\ TicketSum(DateA, SLOTS[1]) > SLOT_CAPACITY

====
